---- MODULE Spec2Model ----
(***************************************************************************)
(* A model of ppdrc (src/phasepack/ppdrc.py), phase preserving dynamic     *)
(* range compression.                                                      *)
(*                                                                         *)
(* Reading of the source.  The function is a transliteration of MATLAB     *)
(* code: length, sin, log1p, max and abs are read as the element-wise      *)
(* array functions of those names (max as the maximum over all elements),  *)
(* and x(k) as the k-th element of the list x.  Every other construct is   *)
(* given the meaning it has in Python with numpy arrays: argwhere returns  *)
(* a (K,2) array of indices, * broadcasts, a[0] = v assigns row 0 of a     *)
(* 2-D array, and "return dim" returns the list.                           *)
(*                                                                         *)
(* Numbers.  Phases are counted in quarter turns (pi/2), energies are of   *)
(* the form 2^j - 1 and logarithms are counted in units of ln 2, so that   *)
(* sin and log1p are exact on the values the model uses.  Clip             *)
(* percentages are counted in hundredths of a percent (0.01 is 1).         *)
(***************************************************************************)
EXTENDS Integers, Sequences, FiniteSets, TLC

\* ---------------------------------------------------------------- bounds
MaxRows == 3
MaxCols == 2
MaxScale == 2
MaxNaN == 2

\* ------------------------------------------------------- program constants
DefaultN == 2
DefaultClip == 1

\* ------------------------------------------------------------------ fields
\* A 2-D array: its shape and its cells, indexed from 0 as in Python.
Pos(R, C) == (0 .. (R - 1)) \X (0 .. (C - 1))

EmptyField == [rows |-> 0, cols |-> 0, data |-> [p \in Pos(0, 0) |-> 0]]

\* A cell of an input field: a number or NaN.
NaN == [isnan |-> TRUE, val |-> 0]
Num(v) == [isnan |-> FALSE, val |-> v]

\* Flattened row-major index of a position, and the cell at a flat index.
FlatIndex(f, p) == p[1] * f.cols + p[2]
Flat(f, i) == f.data[<<i \div f.cols, i % f.cols>>]

\* ------------------------------------------------------------------ inputs
PixelValues == {10}
FillValues == {10, 20}
Wavelengths == {50, 100}
ClipArgs == {<<>>, <<-100>>, <<2500>>, <<5000>>}
OrderArgs == {<<>>, <<0>>}

\* The input fields: every shape up to MaxRows x MaxCols, at most MaxNaN
\* no-data cells.
Images ==
  UNION { { [rows |-> R, cols |-> C, data |-> d] :
              d \in { e \in [Pos(R, C) -> {NaN} \cup {Num(v) : v \in PixelValues}] :
                        Cardinality({ p \in Pos(R, C) : e[p].isnan }) <= MaxNaN } } :
          R \in 1 .. MaxRows, C \in 1 .. MaxCols }

WavelengthLists == UNION { [1 .. L -> Wavelengths] : L \in 0 .. MaxScale }

\* ------------------------------------------------------------- numpy pieces
\* length(wavelength), line 93.
length(w) == Len(w)

\* np.argwhere(np.isnan(im)), line 99: one row <<r, c>> per NaN cell, in
\* row-major order.
NanFlats(im) == { FlatIndex(im, p) : p \in { q \in Pos(im.rows, im.cols) : im.data[q].isnan } }

NthSmallest(S, i) == CHOOSE x \in S : Cardinality({ y \in S : y < x }) = i

argwhere_isnan(im) ==
  LET K == Cardinality(NanFlats(im))
  IN [rows |-> K, cols |-> 2,
      data |-> [p \in Pos(K, 2) |->
                  LET fl == NthSmallest(NanFlats(im), p[1])
                  IN IF p[2] = 0 THEN fl \div im.cols ELSE fl % im.cols]]

\* a * b on two 2-D arrays: numpy broadcasting.
DimOk(a, b) == a = b \/ a = 1 \/ b = 1
BDim(a, b) == IF a = 1 THEN b ELSE a
Broadcastable(a, b) == DimOk(a.rows, b.rows) /\ DimOk(a.cols, b.cols)
BCell(f, p) == f.data[<<IF f.rows = 1 THEN 0 ELSE p[1], IF f.cols = 1 THEN 0 ELSE p[2]>>]

Multiply(a, b) ==
  LET R == BDim(a.rows, b.rows)
      C == BDim(a.cols, b.cols)
  IN [rows |-> R, cols |-> C,
      data |-> [p \in Pos(R, C) |-> BCell(a, p) * BCell(b, p)]]

Abs(x) == IF x < 0 THEN -x ELSE x

SetMax(S) == CHOOSE x \in S : \A y \in S : y <= x
SetMin(S) == CHOOSE x \in S : \A y \in S : x <= y

\* max(abs(dim_tmp)), line 113; defined on a non-empty array only.
Cells(f) == { f.data[p] : p \in Pos(f.rows, f.cols) }
MaxAbs(f) == SetMax({ Abs(v) : v \in Cells(f) })

\* max(range_ary), line 115; defined on a non-empty list only.
MinOfList(l) == SetMin({ l[i] : i \in 1 .. Len(l) })
MaxOfList(l) == SetMax({ l[i] : i \in 1 .. Len(l) })

\* a[i] = v on a 2-D array, lines 120-121: the whole row i is assigned.
SetRow(f, i, v) ==
  [f EXCEPT !.data = [p \in Pos(f.rows, f.cols) |-> IF p[1] = i THEN v ELSE f.data[p]]]

\* dim.append(dim_tmp), line 112.
ListPrepend(l, x) == <<x>> \o l
ListAppend(l, x) == Append(l, x)

\* ------------------------------------------------------------ collaborators
\* fillnan(im): every NaN cell replaced by a number, the others kept.
fillnan(im, v) ==
  [im EXCEPT !.data = [p \in Pos(im.rows, im.cols) |->
                         IF im.data[p].isnan THEN Num(v) ELSE im.data[p]]]

\* highpassmonogenic(filled, wavelength, n): a deterministic stand-in for the
\* filter bank.  Phase in quarter turns, in -1 .. 2, that is (-pi, pi];
\* energy 2^j - 1 >= 0.
PhaseAt(filled, w, ord, p) == ((p[1] + p[2] + (w \div 50) + ord) % 4) - 1
EnergyAt(filled, w, ord, p) ==
  2 ^ (((filled.data[p].val \div 10) + (w \div 50) + p[1]) % 3) - 1

highpassmonogenic(filled, w, ord) ==
  [phase |-> [k \in 1 .. Len(w) |->
                [rows |-> filled.rows, cols |-> filled.cols,
                 data |-> [p \in Pos(filled.rows, filled.cols) |->
                             PhaseAt(filled, w[k], ord, p)]]],
   E |-> [k \in 1 .. Len(w) |->
            [rows |-> filled.rows, cols |-> filled.cols,
             data |-> [p \in Pos(filled.rows, filled.cols) |->
                         EnergyAt(filled, w[k], ord, p)]]]]

\* sin of a phase in quarter turns; log1p of 2^j - 1 in units of ln 2.
sin(q) == CASE q % 4 = 0 -> 0 [] q % 4 = 1 -> 1 [] q % 4 = 2 -> 0 [] q % 4 = 3 -> -1
log1p(e) == CHOOSE j \in 0 .. e : 2 ^ j = e + 1

\* sin(phase(k)) * log1p(E(k)), line 110.
Compress(ph, en) ==
  [rows |-> ph.rows, cols |-> ph.cols,
   data |-> [p \in Pos(ph.rows, ph.cols) |-> sin(ph.data[p]) * log1p(en.data[p])]]

\* histtruncate(f, lo, hi): the values below the lo-th percentile are raised
\* to it and the values above the (100 - hi)-th are lowered to it.
ValidClip(c) == 0 <= c /\ c < 5000
Ranked(f, r) ==
  CHOOSE v \in Cells(f) :
    /\ Cardinality({ p \in Pos(f.rows, f.cols) : f.data[p] < v }) < r
    /\ r <= Cardinality({ p \in Pos(f.rows, f.cols) : f.data[p] <= v })
histtruncate(f, lo, hi) ==
  LET N == f.rows * f.cols
      low == Ranked(f, ((N * lo) \div 10000) + 1)
      high == Ranked(f, N - ((N * hi) \div 10000))
  IN [f EXCEPT !.data = [p \in Pos(f.rows, f.cols) |->
                           IF f.data[p] < low THEN low
                           ELSE IF f.data[p] > high THEN high ELSE f.data[p]]]

\* ------------------------------------------------------------------- state
VARIABLES
  im, wavelength, clip, n,        \* the arguments (clip and n: <<>> is None)
  nscale, mask, filled, phase, E, \* locals of ppdrc
  k, dim_tmp, dim, range_ary, maxrange,
  result, pc, err,                \* the value returned, the position, the exception
  trace,                          \* the steps taken, in order
  fillCalls, hpmCalls, truncCalls,\* the arguments of each collaborator call
  truncOuts,                      \* what histtruncate returned, per call
  clipped                         \* the images as they were before the stamp

vars == <<im, wavelength, clip, n, nscale, mask, filled, phase, E, k, dim_tmp, dim,
          range_ary, maxrange, result, pc, err, trace, fillCalls, hpmCalls,
          truncCalls, truncOuts, clipped>>

inputs == <<im, wavelength>>
locals == <<nscale, mask, filled, phase, E, k, dim_tmp, dim, range_ary, maxrange>>
calls == <<fillCalls, hpmCalls, truncCalls, truncOuts>>

NoResult == [kind |-> "none", images |-> <<>>]

\* return dim, line 123: the list itself, whatever its length.
ReturnValue(d) == [kind |-> "list", images |-> d]

Init ==
  /\ im \in Images
  /\ wavelength \in WavelengthLists
  /\ clip \in ClipArgs
  /\ n \in OrderArgs
  /\ nscale = 0
  /\ mask = EmptyField
  /\ filled = EmptyField
  /\ phase = <<>>
  /\ E = <<>>
  /\ k = 0
  /\ dim_tmp = EmptyField
  /\ dim = <<>>
  /\ range_ary = <<>>
  /\ maxrange = 0
  /\ result = NoResult
  /\ pc = "defaults"
  /\ err = "none"
  /\ trace = <<>>
  /\ fillCalls = <<>>
  /\ hpmCalls = <<>>
  /\ truncCalls = <<>>
  /\ truncOuts = <<>>
  /\ clipped = <<>>

Raise(e) == pc' = "error" /\ err' = e

\* Lines 87-93: the defaults of n and clip, and nscale.
Defaults ==
  /\ pc = "defaults"
  /\ n' = IF n = <<>> THEN <<DefaultN>> ELSE n
  /\ clip' = IF clip = <<>> THEN <<DefaultClip>> ELSE clip
  /\ nscale' = length(wavelength)
  /\ pc' = "mask"
  /\ trace' = Append(trace, "defaults")
  /\ UNCHANGED <<inputs, mask, filled, phase, E, k, dim_tmp, dim, range_ary, maxrange,
                 result, err, calls, clipped>>

\* Line 99: mask = np.argwhere(np.isnan(im)).
ComputeMask ==
  /\ pc = "mask"
  /\ mask' = argwhere_isnan(im)
  /\ pc' = "fill"
  /\ trace' = Append(trace, "mask")
  /\ UNCHANGED <<inputs, clip, n, nscale, filled, phase, E, k, dim_tmp, dim, range_ary,
                 maxrange, result, err, calls, clipped>>

\* Line 100, the argument: fillnan(im).
CallFillnan ==
  /\ pc = "fill"
  /\ \E v \in FillValues : filled' = fillnan(im, v)
  /\ fillCalls' = Append(fillCalls, im)
  /\ pc' = "hpm"
  /\ trace' = Append(trace, "fillnan")
  /\ UNCHANGED <<inputs, clip, n, nscale, mask, phase, E, k, dim_tmp, dim, range_ary,
                 maxrange, result, err, hpmCalls, truncCalls, truncOuts, clipped>>

\* What line 100 hands to highpassmonogenic.
HpmOriginalArgs == [field |-> im, wavelength |-> wavelength, n |-> n[1]]
HpmArgs == [field |-> filled, wavelength |-> wavelength, n |-> n[1]]

\* Lines 100-105: the call of highpassmonogenic; atleast_1d leaves the two
\* lists as they are.  The loop of line 109 starts at k = 0.
CallHighpassmonogenic ==
  /\ pc = "hpm"
  /\ LET a == HpmArgs
         s == highpassmonogenic(a.field, a.wavelength, a.n)
     IN /\ phase' = s.phase
        /\ E' = s.E
        /\ hpmCalls' = Append(hpmCalls, a)
  /\ k' = 0
  /\ pc' = IF nscale > 0 THEN "compress" ELSE "maxrange"
  /\ trace' = Append(trace, "highpassmonogenic")
  /\ UNCHANGED <<inputs, clip, n, nscale, mask, filled, dim_tmp, dim, range_ary,
                 maxrange, result, err, fillCalls, truncCalls, truncOuts, clipped>>

\* Line 100 with an empty wavelength list: what the provider does is not
\* defined, it may raise as well as return two empty lists.
HighpassmonogenicFail ==
  /\ pc = "hpm"
  /\ wavelength = <<>>
  /\ hpmCalls' = Append(hpmCalls, HpmArgs)
  /\ Raise("CollaboratorFailure")
  /\ trace' = Append(trace, "highpassmonogenic")
  /\ UNCHANGED <<inputs, clip, n, locals, result, fillCalls, truncCalls, truncOuts,
                 clipped>>

\* Line 110: sin(phase(k)) * log1p(E(k)).
LoopCompress ==
  /\ pc = "compress"
  /\ dim_tmp' = Compress(phase[k + 1], E[k + 1])
  /\ pc' = "truncate"
  /\ trace' = Append(trace, "compress")
  /\ UNCHANGED <<inputs, clip, n, nscale, mask, filled, phase, E, k, dim, range_ary,
                 maxrange, result, err, calls, clipped>>

\* What line 110 hands to histtruncate: the compressed field, not yet masked.
TruncMaskedInput == IF Broadcastable(dim_tmp, mask) THEN Multiply(dim_tmp, mask) ELSE dim_tmp
TruncInput == dim_tmp

\* Line 110: histtruncate(..., clip, clip).  With a percentage outside
\* [0, 50) the truncator's result is not defined: it may return the field
\* as it is, or raise (LoopTruncateFail).
LoopTruncate ==
  /\ pc = "truncate"
  /\ LET f == TruncInput
         out == IF ValidClip(clip[1]) THEN histtruncate(f, clip[1], clip[1]) ELSE f
     IN /\ truncCalls' = Append(truncCalls, [field |-> f, lo |-> clip[1], hi |-> clip[1]])
        /\ truncOuts' = Append(truncOuts, out)
        /\ dim_tmp' = out
  /\ pc' = "maskmul"
  /\ trace' = Append(trace, "histtruncate")
  /\ UNCHANGED <<inputs, clip, n, nscale, mask, filled, phase, E, k, dim, range_ary,
                 maxrange, result, err, fillCalls, hpmCalls, clipped>>

LoopTruncateFail ==
  /\ pc = "truncate"
  /\ ~ValidClip(clip[1])
  /\ truncCalls' = Append(truncCalls, [field |-> TruncInput, lo |-> clip[1], hi |-> clip[1]])
  /\ Raise("CollaboratorFailure")
  /\ trace' = Append(trace, "histtruncate")
  /\ UNCHANGED <<inputs, clip, n, locals, result, fillCalls, hpmCalls, truncOuts, clipped>>

\* Lines 110-113: ... * mask, the two appends, and the end of the loop body.
LoopMask ==
  /\ pc = "maskmul"
  /\ Broadcastable(dim_tmp, mask)
  /\ LET prod == Multiply(dim_tmp, mask)
     IN /\ prod.rows > 0
        /\ dim_tmp' = prod
        /\ dim' = ListAppend(dim, prod)
        /\ range_ary' = Append(range_ary, MaxAbs(prod))
  /\ k' = k + 1
  /\ pc' = IF k + 1 < nscale THEN "compress" ELSE "maxrange"
  /\ trace' = Append(trace, "maskmul")
  /\ UNCHANGED <<inputs, clip, n, nscale, mask, filled, phase, E, maxrange, result, err,
                 calls, clipped>>

\* Line 110: the shapes of the truncated field and of mask do not broadcast.
LoopMaskBroadcastError ==
  /\ pc = "maskmul"
  /\ ~Broadcastable(dim_tmp, mask)
  /\ Raise("ValueError")
  /\ trace' = Append(trace, "maskmul")
  /\ UNCHANGED <<inputs, clip, n, locals, result, calls, clipped>>

\* Lines 110-113: the product is an empty array (mask has no row), appended
\* to dim, and max of it raises.
LoopMaskEmptyError ==
  /\ pc = "maskmul"
  /\ Broadcastable(dim_tmp, mask)
  /\ LET prod == Multiply(dim_tmp, mask)
     IN /\ prod.rows = 0
        /\ dim_tmp' = prod
        /\ dim' = ListAppend(dim, prod)
  /\ Raise("ValueError")
  /\ trace' = Append(trace, "maskmul")
  /\ UNCHANGED <<inputs, clip, n, nscale, mask, filled, phase, E, k, range_ary, maxrange,
                 result, calls, clipped>>

\* Line 115: maxrange = max(range_ary).  The loop of line 119 starts at 0.
ComputeMaxrange ==
  /\ pc = "maxrange"
  /\ range_ary # <<>>
  /\ maxrange' = MaxOfList(range_ary)
  /\ clipped' = dim
  /\ k' = 0
  /\ pc' = "stamp"
  /\ trace' = Append(trace, "maxrange")
  /\ UNCHANGED <<inputs, clip, n, nscale, mask, filled, phase, E, dim_tmp, dim, range_ary,
                 result, err, calls>>

\* Line 115 with no scale: max of an empty list raises.
MaxrangeEmptyError ==
  /\ pc = "maxrange"
  /\ range_ary = <<>>
  /\ Raise("ValueError")
  /\ trace' = Append(trace, "maxrange")
  /\ UNCHANGED <<inputs, clip, n, locals, result, calls, clipped>>

\* Lines 120-121 for one k: row 0 and row 1 of image k are assigned.
Stamp ==
  /\ pc = "stamp"
  /\ dim[k + 1].rows >= 2
  /\ dim' = [dim EXCEPT ![k + 1] = SetRow(SetRow(@, 0, maxrange), 1, -maxrange)]
  /\ k' = k + 1
  /\ pc' = IF k + 1 < nscale THEN "stamp" ELSE "return"
  /\ trace' = Append(trace, "stamp")
  /\ UNCHANGED <<inputs, clip, n, nscale, mask, filled, phase, E, dim_tmp, range_ary,
                 maxrange, result, err, calls, clipped>>

\* Lines 120-121 on an image of one row: row 0 is assigned and index 1 is
\* out of bounds.
StampIndexError ==
  /\ pc = "stamp"
  /\ dim[k + 1].rows < 2
  /\ dim' = [dim EXCEPT ![k + 1] = SetRow(@, 0, maxrange)]
  /\ Raise("IndexError")
  /\ trace' = Append(trace, "stamp")
  /\ UNCHANGED <<inputs, clip, n, nscale, mask, filled, phase, E, k, dim_tmp, range_ary,
                 maxrange, result, calls, clipped>>

\* Line 123.
Return ==
  /\ pc = "return"
  /\ result' = ReturnValue(dim)
  /\ pc' = "done"
  /\ trace' = Append(trace, "return")
  /\ UNCHANGED <<inputs, clip, n, locals, err, calls, clipped>>

Next ==
  \/ Defaults
  \/ ComputeMask
  \/ CallFillnan
  \/ CallHighpassmonogenic
  \/ HighpassmonogenicFail
  \/ LoopCompress
  \/ LoopTruncate
  \/ LoopTruncateFail
  \/ LoopMask
  \/ LoopMaskBroadcastError
  \/ LoopMaskEmptyError
  \/ ComputeMaxrange
  \/ MaxrangeEmptyError
  \/ Stamp
  \/ StampIndexError
  \/ Return

Spec == Init /\ [][Next]_vars

\* ------------------------------------------------------------------ claims
\* The arguments as ppdrc reads them, before or after line 87-90 ran.
ClipOf == IF clip = <<>> THEN DefaultClip ELSE clip[1]
OrderOf == IF n = <<>> THEN DefaultN ELSE n[1]
InvalidArgs == ~ValidClip(ClipOf) \/ OrderOf < 1 \/ wavelength = <<>>
NanCells(f) == { p \in Pos(f.rows, f.cols) : f.data[p].isnan }
AllNaN(f) == NanCells(f) = Pos(f.rows, f.cols)

\* A call the specification accepts.
ValidCall == ~InvalidArgs /\ ~AllNaN(im)

\* The positions of an array other than flattened index 0 and 1.
Unstamped(f) == { p \in Pos(f.rows, f.cols) : FlatIndex(f, p) > 1 }

\* C1: a call with exactly one wavelength returns the compressed image
\* itself, a bare array, not a list holding it.
C1_SingleReturnsBareField ==
  (pc = "done" /\ ValidCall /\ Len(wavelength) = 1) => result.kind = "array"

\* C2: in a multi-scale call every returned image holds +maxrange at
\* flattened position 0 and -maxrange at flattened position 1, maxrange being
\* the maximum over the scales of the maximum absolute value of the image as
\* it was before the calibration pixels were written.
C2_CalibrationPixels ==
  (pc = "done" /\ ValidCall /\ Len(wavelength) > 1) =>
    LET m == MaxOfList([j \in 1 .. Len(clipped) |-> MaxAbs(clipped[j])])
    IN \A i \in 1 .. Len(result.images) :
         /\ Flat(result.images[i], 0) = m
         /\ Flat(result.images[i], 1) = -m

\* C3: every position that is NaN in the input is exactly 0 in every image
\* as it is before the calibration stamp, and in every returned image unless
\* it is one of the two calibration pixels.
C3_NoDataIsZero ==
  ValidCall =>
    /\ \A i \in 1 .. Len(clipped) :
         \A p \in NanCells(im) :
           /\ p \in Pos(clipped[i].rows, clipped[i].cols)
           /\ clipped[i].data[p] = 0
    /\ pc = "done" =>
         \A i \in 1 .. Len(result.images) :
           \A p \in NanCells(im) :
             FlatIndex(im, p) > 1 =>
               /\ p \in Pos(result.images[i].rows, result.images[i].cols)
               /\ result.images[i].data[p] = 0

\* C4: with clip outside [0, 50), an order below 1 or no wavelength, no
\* collaborator (filler, signal provider, truncator) is ever invoked.
C4_RejectedBeforeCollaborators ==
  InvalidArgs => (fillCalls = <<>> /\ hpmCalls = <<>> /\ truncCalls = <<>>)

\* C6: a call whose input is NaN at every position never returns a result.
C6_AllNaNNeverReturns ==
  (AllNaN(im) /\ ~InvalidArgs) => pc # "done"

\* C9: the calibration stamp changes flattened positions 0 and 1 only: at
\* every other position the returned image has the value it had before the
\* stamp.
C9_StampTouchesTwoPixels ==
  (pc = "done" /\ ValidCall) =>
    \A i \in 1 .. Len(result.images) :
      \A p \in Unstamped(result.images[i]) :
        result.images[i].data[p] = clipped[i].data[p]

\* What the scale of wavelength w is built from: the provider's signal for
\* w on the filled field, compressed, truncated, multiplied by mask, and
\* stamped with the maxrange of the call.
SignalOf(w) == highpassmonogenic(filled, <<w>>, n[1])
CompressedOf(w) == Compress(SignalOf(w).phase[1], SignalOf(w).E[1])
TruncatedOf(w) ==
  IF ValidClip(clip[1]) THEN histtruncate(CompressedOf(w), clip[1], clip[1])
  ELSE CompressedOf(w)
ImageOf(w) == SetRow(SetRow(Multiply(TruncatedOf(w), mask), 0, maxrange), 1, -maxrange)

\* C5: a multi-scale call with N > 1 wavelengths returns exactly N images,
\* and image k is the one built from the k-th wavelength.
C5_OrderPreserved ==
  (pc = "done" /\ Len(wavelength) > 1) =>
    /\ Len(result.images) = Len(wavelength)
    /\ \A i \in 1 .. Len(wavelength) : result.images[i] = ImageOf(wavelength[i])

\* C5 happens: a returned multi-scale result whose images differ.
C5_Witness ==
  /\ pc = "done"
  /\ ValidCall
  /\ Len(wavelength) > 1
  /\ wavelength[1] # wavelength[2]
  /\ result.images[1] # result.images[2]

\* C7 as stated: within a scale the truncator is handed the compressed field
\* already multiplied by the mask, and the mask multiplication comes before
\* the truncation.
C7_MaskBeforeTruncate ==
  \A i \in 1 .. Len(trace) :
    trace[i] = "histtruncate" => (i > 1 /\ trace[i - 1] = "maskmul")

\* C7 amended: within a scale the steps run compress, histogram truncation,
\* multiplication by mask; the truncator is handed the compressed field not
\* yet multiplied, and the image kept is mask times the truncator's output.
C7_TruncateBeforeMask ==
  /\ \A i \in 1 .. Len(trace) :
       /\ trace[i] = "histtruncate" => (i > 1 /\ trace[i - 1] = "compress")
       /\ trace[i] = "maskmul" => (i > 1 /\ trace[i - 1] = "histtruncate")
  /\ \A j \in 1 .. Len(truncCalls) :
       truncCalls[j].field = Compress(phase[j], E[j])
  /\ pc \in {"compress", "truncate", "maskmul", "maxrange"} =>
       \A j \in 1 .. Len(dim) : dim[j] = Multiply(truncOuts[j], mask)
  /\ \A j \in 1 .. Len(clipped) : clipped[j] = Multiply(truncOuts[j], mask)

\* C7 happens: a returned call in which the truncation changed a compressed
\* field and the multiplication changed a truncated one.
C7_Witness ==
  /\ pc = "done"
  /\ ValidCall
  /\ \E j \in 1 .. Len(truncOuts) :
       /\ truncOuts[j] # truncCalls[j].field
       /\ clipped[j] # truncOuts[j]

\* C8: mask is computed once, from the original input, before the filler
\* runs; the signal provider is invoked once, with the filler's output, the
\* whole wavelength list and the order, before any scale is compressed.
Count(name) == Cardinality({ i \in 1 .. Len(trace) : trace[i] = name })
Before(a, b) ==
  \A i \in 1 .. Len(trace) : trace[i] = b => \E j \in 1 .. (i - 1) : trace[j] = a
C8_MaskThenFillThenProvider ==
  /\ Count("mask") <= 1
  /\ Count("mask") = 1 => mask = argwhere_isnan(im)
  /\ Before("mask", "fillnan")
  /\ Len(fillCalls) <= 1
  /\ Len(hpmCalls) <= 1
  /\ Before("fillnan", "highpassmonogenic")
  /\ Before("highpassmonogenic", "compress")
  /\ \A j \in 1 .. Len(hpmCalls) :
       /\ fillCalls = <<im>>
       /\ hpmCalls[j].field = filled
       /\ NanCells(hpmCalls[j].field) = {}
       /\ hpmCalls[j].wavelength = wavelength
       /\ hpmCalls[j].n = n[1]
  /\ pc = "done" => Len(hpmCalls) = 1

\* C8 happens: a returned multi-scale call on an input with a NaN.
C8_Witness ==
  /\ pc = "done"
  /\ ValidCall
  /\ Len(wavelength) > 1
  /\ NanCells(im) # {}
  /\ hpmCalls[1].field # im

\* C10: in every returned image every value is at most maxrange in absolute
\* value and both +maxrange and -maxrange occur, so that all the images of a
\* call have the same minimum and the same maximum.
C10_SharedRange ==
  pc = "done" =>
    \A i \in 1 .. Len(result.images) :
      /\ \A v \in Cells(result.images[i]) : Abs(v) <= maxrange
      /\ SetMax(Cells(result.images[i])) = maxrange
      /\ SetMin(Cells(result.images[i])) = -maxrange

\* C10 happens: a returned multi-scale result of three rows whose scales
\* have different ranges.
C10_Witness ==
  /\ pc = "done"
  /\ ValidCall
  /\ Len(wavelength) > 1
  /\ range_ary[1] # range_ary[2]
  /\ result.images[1].rows > 2
  /\ \E p \in Unstamped(result.images[1]) : result.images[1].data[p] # 0

====
